---- MODULE Spec2Model ----
(***************************************************************************)
(* Model of the adaptive inventory decision engine                         *)
(* (core_modules/inventory_agent.py, class IntelligentInventoryAgent) and  *)
(* of the service that hosts it                                            *)
(* (streaming_production/services/agent_service.py).                       *)
(*                                                                         *)
(* Quantities (stock, demand, money) are Python floats in the code.  Here  *)
(* they are fixed-point numbers with two decimals: the integer n stands    *)
(* for n / Unit.  Every product the code forms (base * 2.5, sum * 1.5,     *)
(* quantity * 30 ...) is exact in this representation as long as inputs    *)
(* carry at most one decimal, which all input sets below do.  Floating     *)
(* point rounding error is not modelled.                                   *)
(*                                                                         *)
(* A scenario label is a sequence of tokens; the code's substring test     *)
(* `"Viral" in scenario_name` is the test that a token of the label is     *)
(* "Viral".                                                                *)
(***************************************************************************)
EXTENDS Integers, Sequences, FiniteSets, TLC

VARIABLES
    agent,               \* a stand-alone IntelligentInventoryAgent (main.py)
    production_service,  \* the global ProductionAgentService (agent_service.py)
    response,            \* the last call: its name, its arguments, what it returned
    submitted,           \* history: the periods the agent processed since its construction
    threads              \* the request threads of the service, each with its locals

vars == <<agent, production_service, response, submitted, threads>>

Unit == 10 * 10

----------------------------------------------------------------------------
(* Arithmetic helpers *)

Max(a, b) == IF a >= b THEN a ELSE b
Min(a, b) == IF a <= b THEN a ELSE b
Abs(a) == IF a >= 0 THEN a ELSE -a

\* a multiplication that keeps only the whole part of the factor
MulDecWhole(x, k) == x * (k \div 10)

\* x * (k / 10) for a one-decimal factor k/10 (2.5 is 25, 0.7 is 7)
MulDec(x, k) == (x * k) \div 10

\* Python int(): truncation toward zero, here of a two-decimal quantity
PyInt(x) == IF x >= 0 THEN (x \div Unit) * Unit ELSE -(((-x) \div Unit) * Unit)

RECURSIVE Gcd(_, _)
Gcd(a, b) == IF b = 0 THEN a ELSE Gcd(b, a % b)

\* An exact fraction num/den (den > 0) in lowest terms
Frac(num, den) ==
    LET g == Gcd(Abs(num), den)
    IN  IF g = 0 THEN [num |-> 0, den |-> 1]
        ELSE [num |-> num \div g, den |-> den \div g]

RECURSIVE SumSeq(_)
SumSeq(s) == IF s = <<>> THEN 0 ELSE Head(s) + SumSeq(Tail(s))

\* Python's s[-n:]
LastN(s, n) == IF Len(s) <= n THEN s ELSE SubSeq(s, Len(s) - n + 1, Len(s))

\* `kw in name` for a label given as its tokens
Contains(name, kw) == \E i \in DOMAIN name : name[i] = kw

----------------------------------------------------------------------------
(* IntelligentInventoryAgent *)

\* __init__
IntelligentInventoryAgent(initial_stock, base_reorder_point, base_reorder_quantity) ==
    [ current_stock               |-> initial_stock,
      base_reorder_point          |-> base_reorder_point,
      base_reorder_quantity       |-> base_reorder_quantity,
      orders_placed               |-> <<>>,
      stockouts                   |-> 0,
      decisions_log               |-> <<>>,
      scenario_memory             |-> <<>>,
      total_revenue               |-> 0,
      total_costs                 |-> 0,
      customer_satisfaction_score |-> 100,
      max_order_size              |-> 5000 * Unit,
      lead_time_days              |-> 3 ]

\* a running mean that weights the old mean by n instead of n - 1
RunningMeanOff(avg, n, demand) ==
    Frac(avg.num * n + demand * avg.den, avg.den * n)

\* the running mean of _update_scenario_memory (line 108), n the new encounter count
RunningMean(avg, n, demand) ==
    Frac(avg.num * (n - 1) + demand * avg.den, avg.den * n)

\* _update_scenario_memory: the agent after the update
_update_scenario_memory(a, scenario_name, demand, urgency_level) ==
    LET old == IF scenario_name \in DOMAIN a.scenario_memory
               THEN a.scenario_memory[scenario_name]
               ELSE [ encounters |-> 0, avg_demand |-> Frac(0, 1),
                      max_demand |-> 0, successful_strategies |-> <<>> ]
        n   == old.encounters + 1
        new == [ encounters |-> n,
                 avg_demand |-> RunningMean(old.avg_demand, n, demand),
                 max_demand |-> Max(old.max_demand, demand),
                 successful_strategies |-> Append(old.successful_strategies, urgency_level) ]
    IN  [a EXCEPT !.scenario_memory =
            [l \in (DOMAIN a.scenario_memory) \cup {scenario_name} |->
                IF l = scenario_name THEN new ELSE a.scenario_memory[l]]]

\* the rule a label would get if the last matching test of the cascade decided
MatchedRuleLast(scenario_name) ==
    IF Contains(scenario_name, "Post_Holiday") THEN "Post_Holiday"
    ELSE IF Contains(scenario_name, "Competitor_Stockout") THEN "Competitor_Stockout"
    ELSE IF Contains(scenario_name, "Economic_Downturn") THEN "Economic_Downturn"
    ELSE IF Contains(scenario_name, "Supply_Chain_Disruption") THEN "Supply_Chain_Disruption"
    ELSE IF Contains(scenario_name, "Black_Friday") THEN "Black_Friday"
    ELSE IF Contains(scenario_name, "Viral") \/ Contains(scenario_name, "Celebrity") THEN "Viral"
    ELSE "Default"

\* The tests of the if/elif cascade of analyze_scenario_and_adapt (lines 43, 50, 57,
\* 64, 71, 78): the branch taken
MatchedRule(scenario_name) ==
    IF Contains(scenario_name, "Viral") \/ Contains(scenario_name, "Celebrity") THEN "Viral"
    ELSE IF Contains(scenario_name, "Black_Friday") THEN "Black_Friday"
    ELSE IF Contains(scenario_name, "Supply_Chain_Disruption") THEN "Supply_Chain_Disruption"
    ELSE IF Contains(scenario_name, "Economic_Downturn") THEN "Economic_Downturn"
    ELSE IF Contains(scenario_name, "Competitor_Stockout") THEN "Competitor_Stockout"
    ELSE IF Contains(scenario_name, "Post_Holiday") THEN "Post_Holiday"
    ELSE "Default"

\* The assignments of each branch, "Default" being lines 37-40
RulePolicy(a, rule) ==
    CASE rule = "Viral" ->
        [ reorder_point    |-> MulDec(a.base_reorder_point, 25),
          reorder_quantity |-> Min(a.base_reorder_quantity * 3, a.max_order_size),
          urgency_level    |-> "Critical - Viral Event",
          strategy_notes   |-> "Preparing for viral demand spike - maximizing availability" ]
      [] rule = "Black_Friday" ->
        [ reorder_point    |-> a.base_reorder_point * 3,
          reorder_quantity |-> Min(a.base_reorder_quantity * 4, a.max_order_size),
          urgency_level    |-> "Critical - Black Friday",
          strategy_notes   |-> "Black Friday preparation - ensuring maximum stock availability" ]
      [] rule = "Supply_Chain_Disruption" ->
        [ reorder_point    |-> MulDec(a.base_reorder_point, 18),
          reorder_quantity |-> MulDec(a.base_reorder_quantity, 7),
          urgency_level    |-> "Caution - Supply Issues",
          strategy_notes   |-> "Supply chain disruption - smaller orders to reduce risk" ]
      [] rule = "Economic_Downturn" ->
        [ reorder_point    |-> MulDec(a.base_reorder_point, 7),
          reorder_quantity |-> MulDec(a.base_reorder_quantity, 6),
          urgency_level    |-> "Conservative - Economic Risk",
          strategy_notes   |-> "Economic downturn - minimizing inventory investment" ]
      [] rule = "Competitor_Stockout" ->
        [ reorder_point    |-> MulDec(a.base_reorder_point, 15),
          reorder_quantity |-> Min(a.base_reorder_quantity * 2, a.max_order_size),
          urgency_level    |-> "Opportunity - Market Capture",
          strategy_notes   |-> "Competitor stockout - capturing increased market share" ]
      [] rule = "Post_Holiday" ->
        [ reorder_point    |-> MulDec(a.base_reorder_point, 5),
          reorder_quantity |-> MulDec(a.base_reorder_quantity, 4),
          urgency_level    |-> "Clearance Mode",
          strategy_notes   |-> "Post-holiday clearance - minimal restocking" ]
      [] OTHER ->
        [ reorder_point    |-> a.base_reorder_point,
          reorder_quantity |-> a.base_reorder_quantity,
          urgency_level    |-> "Normal",
          strategy_notes   |-> "Standard operations" ]

\* a policy that orders one unit more for every earlier encounter of the label
ScenarioPolicyLearned(a, scenario_name) ==
    [ RulePolicy(a, MatchedRule(scenario_name)) EXCEPT
        !.reorder_quantity =
            @ + (IF scenario_name \in DOMAIN a.scenario_memory
                 THEN a.scenario_memory[scenario_name].encounters * Unit ELSE 0) ]

\* The rule cascade of analyze_scenario_and_adapt: the returned policy
ScenarioPolicy(a, scenario_name) == RulePolicy(a, MatchedRule(scenario_name))

\* an analyze_scenario_and_adapt that learns only from labels a rule matched
AnalyzeRememberingRules(a, scenario_name, predicted_demand, current_date) ==
    LET adaptation == ScenarioPolicy(a, scenario_name)
    IN  [ adaptation |-> adaptation,
          agent      |-> IF MatchedRule(scenario_name) = "Default" THEN a
                         ELSE _update_scenario_memory(a, scenario_name, predicted_demand,
                                                      adaptation.urgency_level) ]

\* analyze_scenario_and_adapt: the policy and the agent after the memory update
analyze_scenario_and_adapt(a, scenario_name, predicted_demand, current_date) ==
    LET adaptation == ScenarioPolicy(a, scenario_name)
    IN  [ adaptation |-> adaptation,
          agent      |-> _update_scenario_memory(a, scenario_name, predicted_demand,
                                                adaptation.urgency_level) ]

\* a _process_demand that bills the whole demand also when it cannot serve it
ProcessDemandBilledInFull(a, actual_demand, enough) ==
    IF enough THEN
        [ agent     |-> [a EXCEPT !.current_stock = @ - actual_demand,
                                  !.total_revenue = @ + actual_demand * 50],
          fulfilled |-> actual_demand,
          stockout  |-> 0 ]
    ELSE
        [ agent     |-> [a EXCEPT !.current_stock = 0,
                                  !.total_revenue = @ + actual_demand * 50],
          fulfilled |-> a.current_stock,
          stockout  |-> actual_demand - a.current_stock ]

\* The two branches of _process_demand (lines 181-183 and 185-190), `enough`
\* being the outcome of the test `self.current_stock >= actual_demand`
ProcessDemandBranch(a, actual_demand, enough) ==
    IF enough THEN
        [ agent     |-> [a EXCEPT !.current_stock = @ - actual_demand,
                                  !.total_revenue = @ + actual_demand * 50],
          fulfilled |-> actual_demand,
          stockout  |-> 0 ]
    ELSE
        [ agent     |-> [a EXCEPT !.current_stock = 0,
                                  !.total_revenue = @ + a.current_stock * 50],
          fulfilled |-> a.current_stock,
          stockout  |-> actual_demand - a.current_stock ]

\* a _process_demand without the stock test
ProcessDemandUnchecked(a, actual_demand) == ProcessDemandBranch(a, actual_demand, TRUE)

\* a _process_demand that reports the whole demand as unmet when stock runs out
ProcessDemandAllUnmet(a, actual_demand) ==
    IF a.current_stock >= actual_demand
    THEN ProcessDemandBranch(a, actual_demand, TRUE)
    ELSE [ProcessDemandBranch(a, actual_demand, FALSE) EXCEPT !.stockout = actual_demand]

\* _process_demand: the agent after fulfilment, the fulfilled and the unmet amount
_process_demand(a, actual_demand) ==
    ProcessDemandBranch(a, actual_demand, a.current_stock >= actual_demand)

\* the order candidate of _calculate_smart_order_quantity (lines 195-212)
OrderCandidate(a, base_quantity, predicted_demand, scenario_name) ==
    LET recent_demand == [i \in DOMAIN LastN(a.decisions_log, 7) |->
                             LastN(a.decisions_log, 7)[i].actual_demand]
        \* np.mean(recent_demand) * 7
        avg_weekly_demand == IF recent_demand # <<>>
                             THEN (SumSeq(recent_demand) * 7) \div Len(recent_demand)
                             ELSE predicted_demand * 7
        weeks_coverage == IF Contains(scenario_name, "Critical") THEN 40
                          ELSE IF Contains(scenario_name, "Conservative") THEN 15
                          ELSE 25
        demand_based_quantity == MulDec(avg_weekly_demand, weeks_coverage)
        order_quantity == IF Len(a.decisions_log) > 7
                          THEN Max(base_quantity, demand_based_quantity)
                          ELSE base_quantity
    IN  order_quantity

\* a _calculate_smart_order_quantity without the cap
SmartOrderQuantityUncapped(a, base_quantity, predicted_demand, scenario_name) ==
    PyInt(OrderCandidate(a, base_quantity, predicted_demand, scenario_name))

\* a _calculate_smart_order_quantity that rounds up where int() truncates
SmartOrderQuantityCeiling(a, base_quantity, predicted_demand, scenario_name) ==
    -PyInt(-(Min(OrderCandidate(a, base_quantity, predicted_demand, scenario_name),
                 a.max_order_size) + Unit - 1))

\* _calculate_smart_order_quantity
_calculate_smart_order_quantity(a, base_quantity, predicted_demand, scenario_name) ==
    PyInt(Min(OrderCandidate(a, base_quantity, predicted_demand, scenario_name),
              a.max_order_size))

\* a _record_order that appends the order and leaves total_costs as it was
RecordOrderUncosted(a, date, quantity, scenario, urgency) ==
    LET order == [ date |-> date, quantity |-> quantity, scenario |-> scenario,
                   urgency |-> urgency, cost |-> quantity * 30,
                   lead_time_expected |-> a.lead_time_days ]
    IN  [a EXCEPT !.orders_placed = Append(@, order)]

\* _record_order: the agent after the order is recorded
_record_order(a, date, quantity, scenario, urgency) ==
    LET order == [ date |-> date, quantity |-> quantity, scenario |-> scenario,
                   urgency |-> urgency, cost |-> quantity * 30,
                   lead_time_expected |-> a.lead_time_days ]
    IN  [a EXCEPT !.orders_placed = Append(@, order),
                  !.total_costs = @ + order.cost]

\* Python f"{x:.0f}": the nearest whole number, ties to even
FormatWhole(x) ==
    LET q == x \div Unit
        r == x % Unit
    IN  IF 2 * r > Unit \/ (2 * r = Unit /\ q % 2 = 1) THEN q + 1 ELSE q

(* make_intelligent_decision, statement group by statement group.  A call   *)
(* in progress is a record c: `self` is the agent, the other fields are    *)
(* the call's arguments and locals.  demand_variance is the value that     *)
(* np.random.normal(0, |predicted_demand| * 0.1) draws in the call.        *)

Call(a, predicted_demand, current_date, scenario_name, demand_variance) ==
    [ self             |-> a,
      predicted_demand |-> predicted_demand,
      current_date     |-> current_date,
      scenario_name    |-> scenario_name,
      demand_variance  |-> demand_variance ]

\* a policy resolution that takes the prediction as given
ResolvePolicyUnclamped(c) ==
    LET analysis == analyze_scenario_and_adapt(c.self, c.scenario_name, c.predicted_demand,
                                               c.current_date)
    IN  [c EXCEPT !.self = analysis.agent] @@ [adaptation |-> analysis.adaptation]

\* lines 115-119: clamp the prediction, resolve the policy (updates the memory)
ResolvePolicy(c) ==
    LET predicted_demand == Max(0, c.predicted_demand)
        analysis == analyze_scenario_and_adapt(c.self, c.scenario_name, predicted_demand,
                                               c.current_date)
    IN  [c EXCEPT !.self = analysis.agent, !.predicted_demand = predicted_demand]
        @@ [adaptation |-> analysis.adaptation]

\* lines 121-139: the decision record, the realised demand
OpenDecision(c) ==
    c @@ [ decision |->
             [ date                      |-> c.current_date,
               scenario                  |-> c.scenario_name,
               predicted_demand          |-> c.predicted_demand,
               current_stock_before      |-> c.self.current_stock,
               urgency_level             |-> c.adaptation.urgency_level,
               strategy_notes            |-> c.adaptation.strategy_notes,
               adaptive_reorder_point    |-> c.adaptation.reorder_point,
               adaptive_reorder_quantity |-> c.adaptation.reorder_quantity,
               action                    |-> "no_action",
               order_quantity            |-> 0,
               reason                    |-> <<>>,
               current_stock_after       |-> c.self.current_stock ],
           actual_demand |-> Max(0, c.predicted_demand + c.demand_variance) ]

\* an unpacking of _process_demand's result with the two values exchanged
ProcessedSwapped(c, processed) ==
    [c EXCEPT !.self = processed.agent]
    @@ [demand_fulfilled |-> processed.stockout, stockout_amount |-> processed.fulfilled]

\* the call after _process_demand returned `processed`
Processed(c, processed) ==
    [c EXCEPT !.self = processed.agent]
    @@ [demand_fulfilled |-> processed.fulfilled, stockout_amount |-> processed.stockout]

\* lines 141-142
FulfilDemand(c) == Processed(c, _process_demand(c.self, c.actual_demand))

\* a stockout bookkeeping whose satisfaction penalty has no floor
NoteStockoutUnfloored(c) ==
    LET hit == c.stockout_amount > 0
        a   == IF hit
               THEN [c.self EXCEPT !.stockouts = @ + 1,
                                   !.customer_satisfaction_score = @ - 2]
               ELSE c.self
        d   == IF hit
               THEN [c.decision EXCEPT
                        !.action = "stockout",
                        !.reason = <<"Stockout", FormatWhole(c.stockout_amount)>>]
               ELSE c.decision
    IN  [c EXCEPT !.self = a,
                  !.decision = [d EXCEPT !.current_stock_after = a.current_stock]
                               @@ [ actual_demand    |-> c.actual_demand,
                                    demand_fulfilled |-> c.demand_fulfilled ]]

\* lines 144-153: stockout bookkeeping, the decision's post-demand fields
NoteStockout(c) ==
    LET hit == c.stockout_amount > 0
        a   == IF hit
               THEN [c.self EXCEPT !.stockouts = @ + 1,
                                   !.customer_satisfaction_score = Max(0, @ - 2)]
               ELSE c.self
        d   == IF hit
               THEN [c.decision EXCEPT
                        !.action = "stockout",
                        !.reason = <<"Stockout", FormatWhole(c.stockout_amount)>>]
               ELSE c.decision
    IN  [c EXCEPT !.self = a,
                  !.decision = [d EXCEPT !.current_stock_after = a.current_stock]
                               @@ [ actual_demand    |-> c.actual_demand,
                                    demand_fulfilled |-> c.demand_fulfilled ]]

\* an order placement that leaves the decision's current_stock_after as it was
PlaceOrderStale(c, order_quantity) ==
    LET a == _record_order([c.self EXCEPT !.current_stock = @ + order_quantity],
                           c.current_date, order_quantity, c.scenario_name,
                           c.adaptation.urgency_level)
    IN  [c EXCEPT !.self = a,
                  !.decision = [@ EXCEPT
                      !.action = "intelligent_reorder",
                      !.order_quantity = order_quantity,
                      !.reason = <<"Smart reorder", c.adaptation.strategy_notes>>]]

\* an order placement that books the quantity of the policy, whatever is delivered
PlaceOrderByPolicy(c, order_quantity) ==
    LET a == _record_order([c.self EXCEPT !.current_stock = @ + order_quantity],
                           c.current_date, c.adaptation.reorder_quantity, c.scenario_name,
                           c.adaptation.urgency_level)
    IN  [c EXCEPT !.self = a,
                  !.decision = [@ EXCEPT
                      !.action = "intelligent_reorder",
                      !.order_quantity = order_quantity,
                      !.reason = <<"Smart reorder", c.adaptation.strategy_notes>>,
                      !.current_stock_after = a.current_stock]]

\* lines 163-170: place the order
PlaceOrder(c, order_quantity) ==
    LET a == _record_order([c.self EXCEPT !.current_stock = @ + order_quantity],
                           c.current_date, order_quantity, c.scenario_name,
                           c.adaptation.urgency_level)
    IN  [c EXCEPT !.self = a,
                  !.decision = [@ EXCEPT
                      !.action = "intelligent_reorder",
                      !.order_quantity = order_quantity,
                      !.reason = <<"Smart reorder", c.adaptation.strategy_notes>>,
                      !.current_stock_after = a.current_stock]]

\* a reorder decision with the test < in place of <=
ReorderStrict(c) ==
    IF c.self.current_stock < c.adaptation.reorder_point
    THEN PlaceOrder(c, _calculate_smart_order_quantity(
                           c.self, c.adaptation.reorder_quantity, c.predicted_demand,
                           c.scenario_name))
    ELSE c

\* a reorder decision that tests the stock the period began with
ReorderOnStockBefore(c) ==
    IF c.decision.current_stock_before <= c.adaptation.reorder_point
    THEN PlaceOrder(c, _calculate_smart_order_quantity(
                           c.self, c.adaptation.reorder_quantity, c.predicted_demand,
                           c.scenario_name))
    ELSE c

\* a reorder that leaves a period of stockout alone
ReorderWhenServed(c) ==
    IF c.stockout_amount = 0 /\ c.self.current_stock <= c.adaptation.reorder_point
    THEN PlaceOrder(c, _calculate_smart_order_quantity(
                           c.self, c.adaptation.reorder_quantity, c.predicted_demand,
                           c.scenario_name))
    ELSE c

\* lines 155-170: the reorder decision
Reorder(c) ==
    IF c.self.current_stock <= c.adaptation.reorder_point
    THEN PlaceOrder(c, _calculate_smart_order_quantity(
                           c.self, c.adaptation.reorder_quantity, c.predicted_demand,
                           c.scenario_name))
    ELSE c

\* a logging that puts the decision in front
LogDecisionInFront(c) == [c EXCEPT !.self.decisions_log = <<c.decision>> \o @]

\* lines 172-173
LogDecision(c) == [c EXCEPT !.self.decisions_log = Append(@, c.decision)]

\* the agent after the call, the returned decision, and (for the record) what
\* _process_demand had returned to the call
Returned(c) ==
    [ agent    |-> c.self,
      decision |-> c.decision,
      locals   |-> [demand_fulfilled |-> c.demand_fulfilled,
                    stockout_amount  |-> c.stockout_amount] ]

\* make_intelligent_decision: the agent after the period and the returned decision
make_intelligent_decision(a, predicted_demand, current_date, scenario_name, demand_variance) ==
    Returned(LogDecision(Reorder(NoteStockout(FulfilDemand(OpenDecision(ResolvePolicy(
        Call(a, predicted_demand, current_date, scenario_name, demand_variance))))))))

\* floor(m * 10^k / d) and the remainder, for m >= 0, d > 0, by long division
RECURSIVE FloorScaled(_, _, _)
FloorScaled(m, d, k) ==
    IF k = 0 THEN [q |-> m \div d, r |-> m % d]
    ELSE LET p == FloorScaled(m, d, k - 1)
         IN  [q |-> p.q * 10 + (p.r * 10) \div d, r |-> (p.r * 10) % d]

\* Python round(n / d, k), as an integer count of 10^-k: nearest, ties to even
RoundDiv(n, d, k) ==
    LET f  == FloorScaled(Abs(n), d, k)
        up == 2 * f.r > d \/ (2 * f.r = d /\ f.q % 2 = 1)
        q  == IF up THEN f.q + 1 ELSE f.q
    IN  IF n >= 0 THEN q ELSE -q

Range(s) == {s[i] : i \in DOMAIN s}

\* get_performance_metrics
get_performance_metrics(a) ==
    LET total_days  == Len(a.decisions_log)
        profit      == a.total_revenue - a.total_costs
        quantities  == [i \in DOMAIN a.orders_placed |-> a.orders_placed[i].quantity]
        total_ordered == SumSeq(quantities)
        scenarios   == {a.decisions_log[i].scenario : i \in DOMAIN a.decisions_log}
        scenario_counts == [s \in scenarios |->
            Cardinality({i \in DOMAIN a.decisions_log : a.decisions_log[i].scenario = s})]
    IN  IF total_days = 0 THEN <<>>
        ELSE
        [ operational |->
            [ total_days_simulated  |-> total_days,
              stockouts             |-> a.stockouts,
              stockout_rate_percent |-> RoundDiv(a.stockouts * 100, total_days, 2),
              service_level_percent |-> RoundDiv((total_days - a.stockouts) * 100, total_days, 2),
              customer_satisfaction |-> a.customer_satisfaction_score ],
          financial |->
            [ total_revenue |-> a.total_revenue,
              total_costs   |-> a.total_costs,
              profit        |-> profit,
              profit_margin_percent |->
                  IF a.total_revenue > 0
                  THEN RoundDiv(profit, a.total_revenue, 4)
                  ELSE 0 ],
          inventory |->
            [ current_stock       |-> a.current_stock,
              total_orders_placed |-> Len(a.orders_placed),
              average_order_size  |->
                  IF a.orders_placed # <<>>
                  THEN RoundDiv(total_ordered, Len(a.orders_placed) * Unit, 0) * Unit
                  ELSE 0,
              total_units_ordered |-> total_ordered,
              inventory_turnover_rate |->
                  RoundDiv(total_ordered, Max(1 * Unit, a.current_stock), 2) ],
          intelligence |->
            [ scenarios_encountered |-> Cardinality(scenarios),
              scenario_breakdown    |-> scenario_counts,
              adaptive_decisions    |->
                  Cardinality({i \in DOMAIN a.decisions_log :
                                  a.decisions_log[i].urgency_level # "Normal"}),
              learning_entries      |-> Cardinality(DOMAIN a.scenario_memory) ] ]

\* get_scenario_performance
get_scenario_performance(a) ==
    LET log       == a.decisions_log
        scenarios == {log[i].scenario : i \in DOMAIN log}
        Of(s)     == SelectSeq(log, LAMBDA d : d.scenario = s)
        Count(ds, act) == Cardinality({i \in DOMAIN ds : ds[i].action = act})
        Perf(s) ==
            LET ds     == Of(s)
                levels == [i \in DOMAIN ds |-> ds[i].urgency_level]
                total_demand    == SumSeq([i \in DOMAIN ds |-> ds[i].actual_demand])
                total_fulfilled == SumSeq([i \in DOMAIN ds |-> ds[i].demand_fulfilled])
                Times(u) == Cardinality({i \in DOMAIN levels : levels[i] = u})
            IN  [ encounters       |-> Len(ds),
                  stockouts        |-> Count(ds, "stockout"),
                  orders_placed    |-> Count(ds, "intelligent_reorder"),
                  total_demand     |-> total_demand,
                  total_fulfilled  |-> total_fulfilled,
                  urgency_levels   |-> levels,
                  stockout_rate    |-> Frac(Count(ds, "stockout") * 100, Len(ds)),
                  avg_demand       |-> Frac(total_demand, Len(ds)),
                  fulfillment_rate |-> Frac(total_fulfilled * 100, Max(1 * Unit, total_demand)),
                  \* every decision of one label carries the same urgency level,
                  \* so the maximum is over a single candidate
                  most_common_urgency |->
                      CHOOSE u \in Range(levels) :
                          \A v \in Range(levels) : Times(u) >= Times(v) ]
    IN  [s \in scenarios |-> Perf(s)]

\* reset_simulation; the argument is <<>> for None and <<x>> for the value x
reset_simulation(a, initial_stock) ==
    [a EXCEPT !.current_stock = IF initial_stock # <<>> /\ initial_stock[1] # 0
                                THEN initial_stock[1]
                                ELSE 2000 * Unit,
              !.orders_placed = <<>>,
              !.stockouts = 0,
              !.decisions_log = <<>>,
              !.total_revenue = 0,
              !.total_costs = 0,
              !.customer_satisfaction_score = 100]

----------------------------------------------------------------------------
(* ProductionAgentService                                                  *)
(*                                                                         *)
(* A request body (daily_data) has the keys date, sales, scenario and      *)
(* predicted_demand.  A JSON value is [t |-> kind, v |-> content] with     *)
(* kind "num" (a number), "numstr" (a string spelling the number v),       *)
(* "text" (a string spelling no number), "str" (a label, v its tokens, or  *)
(* a date text), "null", or "absent" (no such key).  A date text           *)
(* "a<sep>b<sep>c" is [sep, a, b, c].  Wall-clock fields (timestamps,      *)
(* uptime) are left out.                                                   *)

\* __init__
ProductionAgentService ==
    [ agent               |-> IntelligentInventoryAgent(3000 * Unit, 400 * Unit, 1000 * Unit),
      current_day         |-> 0,
      total_decisions     |-> 0,
      system_status       |-> "running",
      daily_data_log      |-> <<>>,
      decision_log        |-> <<>>,
      performance_metrics |-> [ total_revenue |-> 0,
                                total_costs   |-> 0,
                                stockouts     |-> 0,
                                orders_placed |-> 0,
                                service_level |-> Frac(100, 1) ] ]

\* float(x) succeeds
FloatOk(x) == x.t \in {"num", "numstr"}

IsLeap(y) == (y % 4 = 0 /\ y % 100 # 0) \/ y % 400 = 0
DaysInMonth(y, m) ==
    IF m = 2 THEN (IF IsLeap(y) THEN 29 ELSE 28)
    ELSE IF m \in {4, 6, 9, 11} THEN 30 ELSE 31

\* datetime.strptime(date_str, '%Y-%m-%d') succeeds
StrptimeOk(x) ==
    /\ x.t = "str"
    /\ x.v.sep = "-"
    /\ x.v.a \in 1..9999
    /\ x.v.b \in 1..12
    /\ x.v.c \in 1..DaysInMonth(x.v.a, x.v.b)

strptime(x) == [year |-> x.v.a, month |-> x.v.b, day |-> x.v.c]

\* `"Viral" in scenario_name` raises TypeError unless the value is a string
ScenarioOk(x) == x.t \in {"str", "absent"}

\* daily_data.get(key, default)
Get(x, default) == IF x.t = "absent" THEN default ELSE x

\* _update_performance_metrics: the service after the update
_update_performance_metrics(svc, decision, actual_sales) ==
    LET fulfilled_demand == Min(actual_sales, decision.current_stock_before)
        pm0 == svc.performance_metrics
        pm1 == [pm0 EXCEPT !.total_revenue = @ + fulfilled_demand * 50]
        pm2 == IF decision.action = "intelligent_reorder"
               THEN [pm1 EXCEPT !.total_costs = @ + decision.order_quantity * 30,
                                !.orders_placed = @ + 1]
               ELSE pm1
        pm3 == IF decision.action = "stockout"
               THEN [pm2 EXCEPT !.stockouts = @ + 1]
               ELSE pm2
        pm4 == IF svc.current_day > 0
               THEN [pm3 EXCEPT !.service_level =
                        Frac((svc.current_day - pm3.stockouts) * 100, svc.current_day)]
               ELSE pm3
    IN  [svc EXCEPT !.performance_metrics = pm4]

\* _create_response
_create_response(svc, decision, actual_sales, scenario) ==
    LET pm == svc.performance_metrics
    IN  [ status |-> "success",
          day    |-> svc.current_day,
          agent_decision |->
            [ action         |-> decision.action,
              urgency_level  |-> decision.urgency_level,
              reason         |-> decision.reason,
              current_stock  |-> decision.current_stock_after,
              order_quantity |-> decision.order_quantity,
              reorder_point  |-> decision.adaptive_reorder_point ],
          reorder_message |->
            IF decision.action = "intelligent_reorder"
            THEN << [ action         |-> "REORDER",
                      quantity       |-> decision.order_quantity,
                      urgency        |-> decision.urgency_level,
                      reason         |-> decision.reason,
                      estimated_cost |-> decision.order_quantity * 30 ] >>
            ELSE <<>>,
          performance_metrics |->
            [ service_level |-> RoundDiv(pm.service_level.num, pm.service_level.den, 2),
              total_revenue |-> pm.total_revenue,
              total_costs   |-> pm.total_costs,
              profit        |-> pm.total_revenue - pm.total_costs,
              orders_placed |-> pm.orders_placed,
              stockouts     |-> pm.stockouts ],
          system_info |->
            [ total_decisions |-> svc.total_decisions,
              system_status   |-> svc.system_status ] ]

\* What process_daily_data's try block raises, "" when nothing
Raised(daily_data) ==
    IF ~FloatOk(Get(daily_data.sales, [t |-> "num", v |-> 0])) THEN "float(sales)"
    ELSE IF ~FloatOk(Get(daily_data.predicted_demand, [t |-> "num", v |-> 0]))
         THEN "float(predicted_demand)"
    ELSE IF ~StrptimeOk(daily_data.date) THEN "strptime(date)"
    ELSE IF ~ScenarioOk(daily_data.scenario) THEN "in scenario_name"
    ELSE ""

\* the converted fields of a request (lines 59-65)
Extract(daily_data) ==
    LET sales == Get(daily_data.sales, [t |-> "num", v |-> 0]).v
    IN  [ date_str         |-> daily_data.date.v,
          sales            |-> sales,
          scenario         |-> Get(daily_data.scenario,
                                   [t |-> "str", v |-> <<"Normal_Operations">>]).v,
          predicted_demand |-> Get(daily_data.predicted_demand, [t |-> "num", v |-> sales]).v,
          current_date     |-> strptime(daily_data.date) ]

\* lines 74-76
CountDay(svc) == [svc EXCEPT !.current_day = @ + 1, !.total_decisions = @ + 1]

\* lines 81-95
LogDay(svc, x, decision) ==
    [svc EXCEPT
        !.daily_data_log = Append(@, [ day              |-> svc.current_day,
                                       date             |-> x.date_str,
                                       sales            |-> x.sales,
                                       scenario         |-> x.scenario,
                                       predicted_demand |-> x.predicted_demand ]),
        !.decision_log = Append(@, [day |-> svc.current_day, decision |-> decision])]

Answer(svc, x, decision) ==
    [service |-> svc, response |-> _create_response(svc, decision, x.sales, x.scenario)]

\* lines 74-104: what follows the agent's decision
AfterDecision(svc, x, made) ==
    Answer(LogDay(_update_performance_metrics(CountDay([svc EXCEPT !.agent = made.agent]),
                                              made.decision, x.sales),
                  x, made.decision),
           x, made.decision)

\* lines 57-72 once the conversions succeeded
Decide(svc, x, demand_variance) ==
    AfterDecision(svc, x,
                  make_intelligent_decision(svc.agent, x.predicted_demand, x.current_date,
                                            x.scenario, demand_variance))

\* a process_daily_data that counts the day before it converts the fields
ProcessDailyDataCountingFirst(svc, daily_data, demand_variance) ==
    IF Raised(daily_data) # ""
    THEN [ service  |-> CountDay(svc),
           response |-> [status |-> "error", message |-> Raised(daily_data)] ]
    ELSE Decide(svc, Extract(daily_data), demand_variance)

\* ProductionAgentService.process_daily_data: the service after the call and the
\* returned response
process_daily_data(svc, daily_data, demand_variance) ==
    IF Raised(daily_data) # ""
    THEN [ service  |-> svc,
           response |-> [status |-> "error", message |-> Raised(daily_data)] ]
    ELSE Decide(svc, Extract(daily_data), demand_variance)

\* get_current_state
get_current_state(svc) ==
    [ current_day         |-> svc.current_day,
      current_stock       |-> svc.agent.current_stock,
      performance_metrics |-> svc.performance_metrics,
      recent_decisions    |-> IF Len(svc.decision_log) >= 10
                              THEN LastN(svc.decision_log, 10)
                              ELSE svc.decision_log,
      status              |-> svc.system_status ]

----------------------------------------------------------------------------
(* Inputs *)

\* Periods given to the stand-alone agent
MaxPeriods == 3
\* Requests the service processes between two resets
MaxDays == 2

Normal_Operations == <<"Normal_Operations">>
Viral_Spike_Test  == <<"Viral", "_Spike_Test">>
Economic_Downturn == <<"Economic_Downturn">>

\* (initial_stock, base_reorder_point, base_reorder_quantity) given to the constructor
EngineConfigs ==
    { <<2000 * Unit, 300 * Unit, 800 * Unit>>,
      <<300 * Unit, 300 * Unit, 6000 * Unit>> }

ScenarioNames == {Normal_Operations, Viral_Spike_Test, Economic_Downturn}

\* predicted demand: negative, moderate, large (one decimal)
PredictedDemands == {-50 * Unit, 120 * Unit + 50, 1900 * Unit}

\* the values the normal draw may take when its scale is not 0
DemandVariances == {-(10 * Unit + 30), 24 * Unit + 70}

\* np.random.normal(0, |predicted_demand| * 0.1): exactly 0 when the scale is 0
VariancesFor(predicted_demand_arg) ==
    IF Max(0, predicted_demand_arg) = 0 THEN {0} ELSE DemandVariances

NoThreads == <<>>

NoCall == [op |-> "none", args |-> <<>>, value |-> <<>>]

----------------------------------------------------------------------------
(* The stand-alone agent, driven as main.py drives it: one period after    *)
(* the other, the date being the day of the period.                        *)

EngineInit ==
    /\ agent \in {IntelligentInventoryAgent(c[1], c[2], c[3]) : c \in EngineConfigs}
    /\ production_service = ProductionAgentService
    /\ response = NoCall
    /\ submitted = <<>>
    /\ threads = NoThreads

Decided(args, made) ==
    /\ agent' = made.agent
    /\ response' = [op |-> "make_intelligent_decision", args |-> args, value |-> made.decision]
    /\ submitted' = Append(submitted, args @@ made.locals)

MakeIntelligentDecision ==
    /\ Len(submitted) < MaxPeriods
    /\ \E predicted_demand \in PredictedDemands, scenario_name \in ScenarioNames :
       \E demand_variance \in VariancesFor(predicted_demand) :
          Decided([ scenario         |-> scenario_name,
                    predicted_demand |-> predicted_demand,
                    demand_variance  |-> demand_variance,
                    stock_before     |-> agent.current_stock ],
                  make_intelligent_decision(agent, predicted_demand, Len(submitted) + 1,
                                            scenario_name, demand_variance))
    /\ UNCHANGED <<production_service, threads>>

\* a metrics call that writes the profit it computed back into the agent
GetPerformanceMetricsStoring ==
    /\ response' = [op |-> "get_performance_metrics", args |-> <<>>,
                    value |-> get_performance_metrics(agent)]
    /\ agent' = [agent EXCEPT !.total_revenue = @ - agent.total_costs]
    /\ UNCHANGED <<production_service, submitted, threads>>

GetPerformanceMetrics ==
    /\ response' = [op |-> "get_performance_metrics", args |-> <<>>, value |-> get_performance_metrics(agent)]
    /\ UNCHANGED <<agent, production_service, submitted, threads>>

GetScenarioPerformance ==
    /\ response' = [op |-> "get_scenario_performance", args |-> <<>>, value |-> get_scenario_performance(agent)]
    /\ UNCHANGED <<agent, production_service, submitted, threads>>

EngineNext ==
    \/ MakeIntelligentDecision
    \/ GetPerformanceMetrics
    \/ GetScenarioPerformance

SpecEngine == EngineInit /\ [][EngineNext]_vars

----------------------------------------------------------------------------
(* The stand-alone agent over more than a week of periods, so that the     *)
(* trailing-demand branch of order sizing (len(decisions_log) > 7) runs.   *)

MaxLongPeriods == 9

LongScenarios == {Normal_Operations}
LongDemands   == {0, 120 * Unit + 50, 1900 * Unit}

LongPeriod ==
    /\ Len(submitted) < MaxLongPeriods
    /\ \E predicted_demand \in LongDemands, scenario_name \in LongScenarios :
          Decided([ scenario         |-> scenario_name,
                    predicted_demand |-> predicted_demand,
                    demand_variance  |-> 0,
                    stock_before     |-> agent.current_stock ],
                  make_intelligent_decision(agent, predicted_demand, Len(submitted) + 1,
                                            scenario_name, 0))
    /\ UNCHANGED <<production_service, threads>>

LongNext == LongPeriod

SpecLong == EngineInit /\ [][LongNext]_vars

----------------------------------------------------------------------------
(* The stand-alone agent with reset_simulation between runs.  The scenario  *)
(* memory outlives a reset, so the periods are bounded over all runs.       *)

MaxRunPeriods == 3

\* the arguments of reset_simulation: none, 0, a stock level
ResetArgs == { <<>>, <<0>>, <<500 * Unit>> }

\* the periods processed since construction: every one is an encounter of its label
Encounters(a) ==
    LET labels == DOMAIN a.scenario_memory
        counts == [l \in labels |-> a.scenario_memory[l].encounters]
        RECURSIVE Sum(_)
        Sum(ls) == IF ls = {} THEN 0
                   ELSE LET l == CHOOSE l \in ls : TRUE IN counts[l] + Sum(ls \ {l})
    IN  Sum(labels)

RunPeriod ==
    /\ Encounters(agent) < MaxRunPeriods
    /\ \E predicted_demand \in PredictedDemands, scenario_name \in ScenarioNames :
       \E demand_variance \in VariancesFor(predicted_demand) :
          Decided([ scenario         |-> scenario_name,
                    predicted_demand |-> predicted_demand,
                    demand_variance  |-> demand_variance,
                    stock_before     |-> agent.current_stock ],
                  make_intelligent_decision(agent, predicted_demand, Len(submitted) + 1,
                                            scenario_name, demand_variance))
    /\ UNCHANGED <<production_service, threads>>

ResetSimulation ==
    /\ \E initial_stock \in ResetArgs :
          /\ agent' = reset_simulation(agent, initial_stock)
          /\ response' = [op |-> "reset_simulation", args |-> initial_stock, value |-> <<>>]
    /\ submitted' = <<>>
    /\ UNCHANGED <<production_service, threads>>

RunNext ==
    \/ RunPeriod
    \/ ResetSimulation

SpecRuns == EngineInit /\ [][RunNext]_vars

----------------------------------------------------------------------------
(* analyze_scenario_and_adapt called on its own, over labels that match one *)
(* rule, several rules, or none.                                            *)

MaxAdaptations == 2

Black_Friday_2024 == <<"Black_Friday", "_2024">>

\* "Post_Holiday_Viral", "Economic_Downturn_Black_Friday",
\* "Competitor_Stockout_Supply_Chain_Disruption"
SeveralRuleLabels ==
    { <<"Post_Holiday", "_", "Viral">>,
      <<"Economic_Downturn", "_", "Black_Friday">>,
      <<"Competitor_Stockout", "_", "Supply_Chain_Disruption">> }

\* "Normal_Operations", "viral_spike" (lower case), "" (the empty label)
NoRuleLabels == { Normal_Operations, <<"viral", "_spike">>, <<>> }

PolicyLabels ==
    { Viral_Spike_Test, <<"Celebrity", "_Endorsement">>, Black_Friday_2024,
      <<"Supply_Chain_Disruption">>, Economic_Downturn, <<"Competitor_Stockout">>,
      <<"Post_Holiday", "_Clearance">> }
    \cup SeveralRuleLabels \cup NoRuleLabels

PolicyDemands == {0, 120 * Unit + 50}

Adapt ==
    /\ Encounters(agent) < MaxAdaptations
    /\ \E scenario_name \in PolicyLabels, predicted_demand \in PolicyDemands :
          /\ agent' = analyze_scenario_and_adapt(agent, scenario_name, predicted_demand,
                                                 Encounters(agent) + 1).agent
          /\ response' =
                [ op    |-> "analyze_scenario_and_adapt",
                  args  |-> [ scenario_name    |-> scenario_name,
                              predicted_demand |-> predicted_demand ],
                  value |-> analyze_scenario_and_adapt(agent, scenario_name, predicted_demand,
                                                       Encounters(agent) + 1).adaptation ]
    /\ UNCHANGED <<production_service, submitted, threads>>

PolicyNext == Adapt

SpecPolicy == EngineInit /\ [][PolicyNext]_vars

----------------------------------------------------------------------------
(* Steady runs of the stand-alone agent: every period of a run has the same *)
(* label and the same predicted demand, as when main.py is fed a constant   *)
(* data set, and the normal draw is 0 in all but a few periods.             *)

MaxSteadyPeriods == 18
MaxNoisyPeriods == 1

SteadyConfigs ==
    { <<2000 * Unit, 300 * Unit, 800 * Unit>>,
      <<2000 * Unit, 250 * Unit, 800 * Unit>>,
      <<300 * Unit, 300 * Unit, 800 * Unit>>,
      <<300 * Unit, 300 * Unit, 801 * Unit>> }

SteadyLabels == {Normal_Operations, Viral_Spike_Test, Economic_Downturn}
SteadyDemands == {100 * Unit, 500 * Unit}
SteadyVariances == {0, 24 * Unit + 70}

NoisyPeriods == Cardinality({i \in DOMAIN submitted : submitted[i].demand_variance # 0})

SteadyInit ==
    /\ agent \in {IntelligentInventoryAgent(c[1], c[2], c[3]) : c \in SteadyConfigs}
    /\ production_service = ProductionAgentService
    /\ response = NoCall
    /\ submitted = <<>>
    /\ threads = NoThreads

SteadyPeriod ==
    /\ Len(submitted) < MaxSteadyPeriods
    /\ \E predicted_demand \in SteadyDemands, scenario_name \in SteadyLabels :
       \E demand_variance \in SteadyVariances :
          /\ submitted # <<>> => /\ predicted_demand = submitted[1].predicted_demand
                                 /\ scenario_name = submitted[1].scenario
          /\ demand_variance # 0 => NoisyPeriods < MaxNoisyPeriods
          /\ Decided([ scenario         |-> scenario_name,
                       predicted_demand |-> predicted_demand,
                       demand_variance  |-> demand_variance,
                       stock_before     |-> agent.current_stock ],
                     make_intelligent_decision(agent, predicted_demand, Len(submitted) + 1,
                                               scenario_name, demand_variance))
    /\ UNCHANGED <<production_service, threads>>

SteadyNext == SteadyPeriod

SpecSteady == SteadyInit /\ [][SteadyNext]_vars

----------------------------------------------------------------------------
(* Runs of the stand-alone agent under a demand no order can cover: every   *)
(* period but a few calm ones asks for more than max_order_size, so every   *)
(* such period has a stockout, for more periods than the satisfaction score *)
(* has points to lose.                                                      *)

MaxStrainPeriods == 52
MaxCalmPeriods == 1

\* the third has the smallest reorder point the constructor is meant for
StrainConfigs == { <<2000 * Unit, 300 * Unit, 800 * Unit>>,
                   <<300 * Unit, 300 * Unit, 6000 * Unit>>,
                   <<300 * Unit, 0, 800 * Unit>> }
StrainLabels == {Normal_Operations, Viral_Spike_Test}
StrainDemands == {0, 6000 * Unit}

CalmPeriods == Cardinality({i \in DOMAIN submitted : submitted[i].predicted_demand = 0})

StrainInit ==
    /\ agent \in {IntelligentInventoryAgent(c[1], c[2], c[3]) : c \in StrainConfigs}
    /\ production_service = ProductionAgentService
    /\ response = NoCall
    /\ submitted = <<>>
    /\ threads = NoThreads

StrainPeriod ==
    /\ Len(submitted) < MaxStrainPeriods
    /\ \E predicted_demand \in StrainDemands, scenario_name \in StrainLabels :
          /\ submitted # <<>> => scenario_name = submitted[1].scenario
          /\ predicted_demand = 0 => CalmPeriods < MaxCalmPeriods
          /\ Decided([ scenario         |-> scenario_name,
                       predicted_demand |-> predicted_demand,
                       demand_variance  |-> 0,
                       stock_before     |-> agent.current_stock ],
                     make_intelligent_decision(agent, predicted_demand, Len(submitted) + 1,
                                               scenario_name, 0))
    /\ UNCHANGED <<production_service, threads>>

StrainNext == StrainPeriod

SpecStrain == StrainInit /\ [][StrainNext]_vars

----------------------------------------------------------------------------
(* The service, one request at a time *)

Num(n)     == [t |-> "num", v |-> n]
NumStr(n)  == [t |-> "numstr", v |-> n]
Text       == [t |-> "text", v |-> 0]
DateText(sep, a, b, c) == [t |-> "str", v |-> [sep |-> sep, a |-> a, b |-> b, c |-> c]]
NoDate(kind) == [t |-> kind, v |-> [sep |-> "", a |-> 0, b |-> 0, c |-> 0]]
Label(name) == [t |-> "str", v |-> name]
NoLabel(kind) == [t |-> kind, v |-> <<>>]

\* well-formed field values: "2024-02-29"; a number, a numeric string, no key; ...
GoodDates     == { DateText("-", 2024, 2, 29) }
GoodSales     == { Num(2700 * Unit), NumStr(100 * Unit + 50), [t |-> "absent", v |-> 0] }
GoodScenarios == { Label(Viral_Spike_Test), NoLabel("absent") }
GoodPredicted == { Num(3400 * Unit), Num(-50 * Unit), [t |-> "absent", v |-> 0] }

\* malformed ones: "2023-02-29" (no such day), "29/02/2024", null, no key; text; ...
BadDates      == { DateText("-", 2023, 2, 29), DateText("/", 29, 2, 2024),
                   NoDate("null"), NoDate("absent") }
BadSales      == { Text, [t |-> "null", v |-> 0] }
BadScenarios  == { NoLabel("null") }
BadPredicted  == { Text, [t |-> "null", v |-> 0] }

\* the smallest well-formed request, and it with one field given another good value
GoodRequests ==
    LET base == [ date |-> DateText("-", 2024, 2, 29), sales |-> Num(2700 * Unit),
                  scenario |-> NoLabel("absent"),
                  predicted_demand |-> [t |-> "absent", v |-> 0] ]
    IN  {[base EXCEPT !.date = x] : x \in GoodDates}
        \cup {[base EXCEPT !.sales = x] : x \in GoodSales}
        \cup {[base EXCEPT !.scenario = x] : x \in GoodScenarios}
        \cup {[base EXCEPT !.predicted_demand = x] : x \in GoodPredicted}

\* a well-formed request with one field replaced by a malformed value
BadRequests ==
    LET base == [ date |-> DateText("-", 2024, 2, 29), sales |-> Num(2700 * Unit),
                  scenario |-> Label(Viral_Spike_Test),
                  predicted_demand |-> Num(3400 * Unit) ]
    IN  {[base EXCEPT !.date = x] : x \in BadDates}
        \cup {[base EXCEPT !.sales = x] : x \in BadSales}
        \cup {[base EXCEPT !.scenario = x] : x \in BadScenarios}
        \cup {[base EXCEPT !.predicted_demand = x] : x \in BadPredicted}

EmptyRequest ==
    [ date |-> NoDate("absent"), sales |-> [t |-> "absent", v |-> 0],
      scenario |-> NoLabel("absent"), predicted_demand |-> [t |-> "absent", v |-> 0] ]

Requests == GoodRequests \cup BadRequests \cup {EmptyRequest}

\* the JSON object {}
Empty(daily_data) ==
    \A k \in {"date", "sales", "scenario", "predicted_demand"} : daily_data[k].t = "absent"

\* the predicted demand a request carries once converted
PredictedOf(daily_data) ==
    Get(daily_data.predicted_demand,
        Num(Get(daily_data.sales, Num(0)).v)).v

ServiceVariancesFor(daily_data) ==
    IF Raised(daily_data) # "" THEN {0} ELSE VariancesFor(PredictedOf(daily_data))

ServiceInit ==
    /\ agent = IntelligentInventoryAgent(2000 * Unit, 300 * Unit, 800 * Unit)
    /\ production_service = ProductionAgentService
    /\ response = NoCall
    /\ submitted = <<>>
    /\ threads = NoThreads

\* the history entry of a processed request
Entry(svc, daily_data, demand_variance) ==
    [ scenario         |-> Get(daily_data.scenario, Label(Normal_Operations)).v,
      predicted_demand |-> PredictedOf(daily_data),
      demand_variance  |-> demand_variance,
      stock_before     |-> svc.agent.current_stock ]

\* the route: a falsy body is answered 400 before the service is called
Route(svc, daily_data, demand_variance) ==
    IF Empty(daily_data)
    THEN [service |-> svc, response |-> [status |-> "error", message |-> "No data provided"]]
    ELSE process_daily_data(svc, daily_data, demand_variance)

Served(daily_data, result, entry) ==
    /\ production_service' = result.service
    /\ response' = [op |-> "process_daily_data", args |-> daily_data, value |-> result.response]
    /\ submitted' = IF result.response.status = "success"
                    THEN Append(submitted, entry)
                    ELSE submitted

\* POST /api/process-day
ProcessDay ==
    /\ \E daily_data \in Requests :
       \E demand_variance \in ServiceVariancesFor(daily_data) :
          /\ Raised(daily_data) = "" => production_service.current_day < MaxDays
          /\ Served(daily_data, Route(production_service, daily_data, demand_variance),
                 Entry(production_service, daily_data, demand_variance))
    /\ UNCHANGED <<agent, threads>>

\* a current-state route that counts its call as a processed day
GetCurrentStateCounting ==
    /\ response' = [op |-> "get_current_state", args |-> <<>>, value |-> get_current_state(production_service)]
    /\ production_service' = CountDay(production_service)
    /\ UNCHANGED <<agent, submitted, threads>>

\* GET /api/current-state
GetCurrentState ==
    /\ response' = [op |-> "get_current_state", args |-> <<>>, value |-> get_current_state(production_service)]
    /\ UNCHANGED <<agent, production_service, submitted, threads>>

\* GET /api/performance-summary
GetPerformanceSummary ==
    /\ response' =
          [ op    |-> "get_performance_summary", args |-> <<>>,
            value |-> [ status          |-> "success",
                        days_processed  |-> production_service.current_day,
                        service_metrics |-> production_service.performance_metrics,
                        agent_metrics   |-> get_performance_metrics(production_service.agent) ] ]
    /\ UNCHANGED <<agent, production_service, submitted, threads>>

\* GET /api/health
HealthCheck ==
    /\ response' = [ op    |-> "health_check", args |-> <<>>,
                     value |-> [ status |-> "healthy", version |-> "1.0.0" ] ]
    /\ UNCHANGED <<agent, production_service, submitted, threads>>

\* POST /api/reset
ResetSystem ==
    /\ production_service' = ProductionAgentService
    /\ response' = [ op    |-> "reset_system", args |-> <<>>,
                     value |-> [ status |-> "success", message |-> "System reset successfully" ] ]
    /\ submitted' = <<>>
    /\ UNCHANGED <<agent, threads>>

Next ==
    \/ ProcessDay
    \/ GetCurrentState
    \/ GetPerformanceSummary
    \/ HealthCheck
    \/ ResetSystem

Spec == ServiceInit /\ [][Next]_vars

----------------------------------------------------------------------------
(* The service under concurrent requests.  app.run(host, port, debug=True)  *)
(* starts the development server, which serves every request on a thread   *)
(* of its own; process_daily_data takes no lock.  A thread runs the call    *)
(* statement group by statement group, and another thread may run between   *)
(* two groups.  Each group is taken as one step, so the interleavings here  *)
(* are a subset of those the interpreter allows.                            *)

NThreads == 2
ThreadIds == 1..NThreads

\* the requests sent concurrently: well-formed, default scenario
ConcRequests ==
    { r \in GoodRequests : r.scenario.t = "absent" /\ r.sales = Num(2700 * Unit) }

Idle == [pc |-> "idle"]

ConcInit ==
    /\ agent = IntelligentInventoryAgent(2000 * Unit, 300 * Unit, 800 * Unit)
    /\ production_service = ProductionAgentService
    /\ response = NoCall
    /\ submitted = <<>>
    /\ threads = [t \in ThreadIds |-> Idle]

\* the call record of thread t on the agent as it is now
NowCall(t) == [threads[t].c EXCEPT !.self = production_service.agent]

\* thread t ran `after` on its call record and goes on at pc
Ran(t, after, pc) ==
    /\ production_service' = [production_service EXCEPT !.agent = after.self]
    /\ threads' = [threads EXCEPT ![t] = [@ EXCEPT !.pc = pc,
                                                   !.c = [after EXCEPT !.self = <<>>]]]
    /\ UNCHANGED <<agent, response, submitted>>

\* agent_service.py lines 57-72, inventory_agent.py lines 115-139
ThreadBegin(t) ==
    /\ threads[t].pc = "idle"
    /\ \E daily_data \in ConcRequests :
       \E demand_variance \in ServiceVariancesFor(daily_data) :
          /\ production_service' =
                [production_service EXCEPT !.agent =
                    ResolvePolicy(Call(@, Extract(daily_data).predicted_demand,
                                       Extract(daily_data).current_date,
                                       Extract(daily_data).scenario, demand_variance)).self]
          /\ threads' = [threads EXCEPT ![t] =
                [ pc              |-> "test",
                  daily_data      |-> daily_data,
                  demand_variance |-> demand_variance,
                  x               |-> Extract(daily_data),
                  enough          |-> FALSE,
                  c |-> [OpenDecision(ResolvePolicy(
                            Call(production_service.agent,
                                 Extract(daily_data).predicted_demand,
                                 Extract(daily_data).current_date,
                                 Extract(daily_data).scenario, demand_variance)))
                         EXCEPT !.self = <<>>] ]]
    /\ UNCHANGED <<agent, response, submitted>>

\* inventory_agent.py line 180: the test of _process_demand
ThreadTestStock(t) ==
    /\ threads[t].pc = "test"
    /\ threads' = [threads EXCEPT ![t] =
          [@ EXCEPT !.pc = "apply",
                    !.enough = production_service.agent.current_stock
                                    >= threads[t].c.actual_demand]]
    /\ UNCHANGED <<agent, production_service, response, submitted>>

\* inventory_agent.py lines 181-190 and 144-153: the branch taken, the bookkeeping
ThreadApplyDemand(t) ==
    /\ threads[t].pc = "apply"
    /\ Ran(t, NoteStockout(Processed(NowCall(t),
                                     ProcessDemandBranch(production_service.agent,
                                                         threads[t].c.actual_demand,
                                                         threads[t].enough))),
           "reorder")

\* inventory_agent.py lines 155-175
ThreadReorder(t) ==
    /\ threads[t].pc = "reorder"
    /\ Ran(t, LogDecision(Reorder(NowCall(t))), "finish")

\* agent_service.py lines 74-104
ThreadFinish(t) ==
    /\ threads[t].pc = "finish"
    /\ production_service' =
          LogDay(_update_performance_metrics(CountDay(production_service),
                                             threads[t].c.decision, threads[t].x.sales),
                 threads[t].x, threads[t].c.decision)
    /\ response' = [ op    |-> "process_daily_data",
                     args  |-> threads[t].daily_data,
                     value |-> _create_response(production_service', threads[t].c.decision,
                                                threads[t].x.sales, threads[t].x.scenario) ]
    /\ submitted' = Append(submitted,
                           [ scenario         |-> threads[t].x.scenario,
                             predicted_demand |-> threads[t].x.predicted_demand,
                             demand_variance  |-> threads[t].demand_variance,
                             stock_before     |-> threads[t].c.decision.current_stock_before ])
    /\ threads' = [threads EXCEPT ![t] = [@ EXCEPT !.pc = "done"]]
    /\ UNCHANGED agent

ConcNext ==
    \E t \in ThreadIds :
        \/ ThreadBegin(t)
        \/ ThreadTestStock(t)
        \/ ThreadApplyDemand(t)
        \/ ThreadReorder(t)
        \/ ThreadFinish(t)

SpecConc == ConcInit /\ [][ConcNext]_vars

----------------------------------------------------------------------------
(* A reset while a request is being processed.  reset_system rebinds the    *)
(* global production_service to a new object and takes no lock; a call of   *)
(* process_daily_data that has started keeps running on the object it was   *)
(* called on (its self).  One request thread and the reset route: the       *)
(* object of the request thread is the global one until a reset replaces    *)
(* the global, and from then on the old object, kept in the thread.         *)

Serving == {"decide", "finish"}

ResetInit ==
    /\ agent = IntelligentInventoryAgent(2000 * Unit, 300 * Unit, 800 * Unit)
    /\ production_service = ProductionAgentService
    /\ response = NoCall
    /\ submitted = <<>>
    /\ threads = << [pc |-> "idle", replaced |-> FALSE, self |-> <<>>] >>

\* the object the request thread runs on
SelfOf(th) == IF th.replaced THEN th.self ELSE production_service

\* the request thread leaves its object as svc
StoreSelf(th, svc) ==
    IF th.replaced
    THEN /\ threads' = << [th EXCEPT !.self = svc] >>
         /\ UNCHANGED production_service
    ELSE /\ threads' = << th >>
         /\ production_service' = svc

\* agent_service.py lines 222-232 and 57-65: the route calls the method of the
\* global object, the fields convert
ServeBegin ==
    /\ threads[1].pc = "idle"
    /\ production_service.current_day < MaxDays
    /\ \E daily_data \in ConcRequests :
       \E demand_variance \in ServiceVariancesFor(daily_data) :
          threads' = << [ pc              |-> "decide",
                          replaced        |-> FALSE,
                          self            |-> <<>>,
                          daily_data      |-> daily_data,
                          demand_variance |-> demand_variance,
                          x               |-> Extract(daily_data) ] >>
    /\ UNCHANGED <<agent, production_service, response, submitted>>

\* agent_service.py lines 67-72: self.agent.make_intelligent_decision
ServeDecide ==
    /\ threads[1].pc = "decide"
    /\ LET th   == threads[1]
           made == make_intelligent_decision(SelfOf(th).agent, th.x.predicted_demand,
                                             th.x.current_date, th.x.scenario,
                                             th.demand_variance)
       IN  StoreSelf([ pc              |-> "finish",
                       replaced        |-> th.replaced,
                       self            |-> th.self,
                       daily_data      |-> th.daily_data,
                       demand_variance |-> th.demand_variance,
                       x               |-> th.x,
                       decision        |-> made.decision ],
                     [SelfOf(th) EXCEPT !.agent = made.agent])
    /\ UNCHANGED <<agent, response, submitted>>

\* agent_service.py lines 74-104 and 234: counters, metrics, logs, the response
ServeFinish ==
    /\ threads[1].pc = "finish"
    /\ LET th  == threads[1]
           svc == LogDay(_update_performance_metrics(CountDay(SelfOf(th)),
                                                     th.decision, th.x.sales),
                         th.x, th.decision)
       IN  /\ StoreSelf([pc |-> "idle", replaced |-> FALSE, self |-> <<>>], svc)
           /\ response' = [ op    |-> "process_daily_data",
                            args  |-> th.daily_data,
                            value |-> _create_response(svc, th.decision, th.x.sales,
                                                       th.x.scenario) ]
           /\ submitted' = IF th.replaced THEN submitted
                           ELSE Append(submitted,
                                  [ scenario         |-> th.x.scenario,
                                    predicted_demand |-> th.x.predicted_demand,
                                    demand_variance  |-> th.demand_variance,
                                    stock_before     |-> th.decision.current_stock_before ])
    /\ UNCHANGED agent

\* agent_service.py lines 281-288, on a thread of its own
ResetWhileServing ==
    /\ production_service' = ProductionAgentService
    /\ threads' = << IF threads[1].pc \in Serving /\ ~threads[1].replaced
                     THEN [threads[1] EXCEPT !.replaced = TRUE, !.self = production_service]
                     ELSE threads[1] >>
    /\ response' = [ op    |-> "reset_system", args |-> <<>>,
                     value |-> [ status |-> "success", message |-> "System reset successfully" ] ]
    /\ submitted' = <<>>
    /\ UNCHANGED agent

\* GET /api/current-state on a thread of its own
ReadWhileServing ==
    /\ response' = [ op |-> "get_current_state", args |-> <<>>,
                     value |-> get_current_state(production_service) ]
    /\ UNCHANGED <<agent, production_service, submitted, threads>>

ResetNext ==
    \/ ServeBegin
    \/ ServeDecide
    \/ ServeFinish
    \/ ResetWhileServing
    \/ ReadWhileServing

SpecReset == ResetInit /\ [][ResetNext]_vars

----------------------------------------------------------------------------
(* Properties *)

Log == agent.decisions_log

\* the realised demand of a recorded period, from its inputs
RealisedDemand(h) == Max(0, Max(0, h.predicted_demand) + h.demand_variance)

\* C1: the agent's stock is never negative: not after a period, not in a logged
\* decision's stock after the period, not between fulfilment and reorder.
C1_StockNeverNegative ==
    /\ agent.current_stock >= 0
    /\ \A i \in DOMAIN Log :
          /\ Log[i].current_stock_after >= 0
          /\ Log[i].current_stock_before - Log[i].demand_fulfilled >= 0
          /\ Log[i].current_stock_after - Log[i].order_quantity >= 0

\* a period whose demand exceeded the stock has been processed
C1_Witness ==
    \E i \in DOMAIN Log :
        /\ RealisedDemand(submitted[i]) > submitted[i].stock_before
        /\ submitted[i].stock_before > 0

\* C2: every order placed and every decision's order_quantity is a whole number of
\* units and at most max_order_size.
C2_OrderWithinMax ==
    /\ \A i \in DOMAIN agent.orders_placed :
          /\ agent.orders_placed[i].quantity <= agent.max_order_size
          /\ agent.orders_placed[i].quantity % Unit = 0
    /\ \A i \in DOMAIN Log :
          /\ Log[i].order_quantity <= agent.max_order_size
          /\ Log[i].order_quantity % Unit = 0

\* 2.5 weeks of the mean demand of the seven periods before period i
TrailingQuantity(i) ==
    MulDec(SumSeq([k \in 1..7 |-> RealisedDemand(submitted[i - 8 + k])]), 25)

\* an order was cut to max_order_size in a period with more than 7 periods before
\* it, its demand-based quantity exceeding both the policy's quantity and
\* max_order_size
C2_Witness ==
    \E i \in DOMAIN Log :
        /\ i > 8
        /\ Log[i].action = "intelligent_reorder"
        /\ Log[i].adaptive_reorder_quantity < agent.max_order_size
        /\ TrailingQuantity(i) > agent.max_order_size
        /\ Log[i].order_quantity = agent.max_order_size

\* C3: in every period fulfilled + stockout_amount = actual demand, fulfilled is
\* the smaller of the stock before fulfilment and the demand, and the stockout
\* amount is not negative.
C3_Conservation ==
    \A i \in DOMAIN submitted :
        /\ i \in DOMAIN Log
        /\ Log[i].actual_demand = RealisedDemand(submitted[i])
        /\ Log[i].demand_fulfilled = submitted[i].demand_fulfilled
        /\ submitted[i].demand_fulfilled + submitted[i].stockout_amount = Log[i].actual_demand
        /\ submitted[i].demand_fulfilled = Min(submitted[i].stock_before, Log[i].actual_demand)
        /\ submitted[i].stockout_amount >= 0

\* a period was fulfilled in part
C3_Witness ==
    \E i \in DOMAIN submitted :
        /\ submitted[i].demand_fulfilled > 0
        /\ submitted[i].stockout_amount > 0

\* the demands recorded under a label, in order
RecordedUnder(label) ==
    LET hs == SelectSeq(submitted, LAMBDA h : h.scenario = label)
    IN  [i \in DOMAIN hs |-> Max(0, hs[i].predicted_demand)]

\* C4: the memory holds exactly the labels submitted; each entry's encounters is
\* the number of periods under the label and avg_demand their exact mean.
C4_MeanExact ==
    /\ DOMAIN agent.scenario_memory = {submitted[i].scenario : i \in DOMAIN submitted}
    /\ \A label \in DOMAIN agent.scenario_memory :
          LET m  == agent.scenario_memory[label]
              ds == RecordedUnder(label)
          IN  /\ m.encounters = Len(ds)
              /\ m.avg_demand.den > 0
              /\ m.avg_demand.num * Len(ds) = SumSeq(ds) * m.avg_demand.den

\* a label met with two different demands, before and after another label
C4_Witness ==
    \E i, j, k \in DOMAIN submitted :
        /\ i < j /\ j < k
        /\ submitted[i].scenario = submitted[k].scenario
        /\ submitted[j].scenario # submitted[i].scenario
        /\ submitted[i].predicted_demand > 0
        /\ submitted[k].predicted_demand > submitted[i].predicted_demand
        /\ agent.scenario_memory[submitted[i].scenario].encounters = 2

\* C6: a logged decision's current_stock_after is current_stock_before minus the
\* fulfilled demand plus the order quantity; the next decision starts from it and
\* the last one's is the agent's stock.
C6_StockAfter ==
    \A i \in DOMAIN Log :
        /\ Log[i].current_stock_after =
              Log[i].current_stock_before - Log[i].demand_fulfilled + Log[i].order_quantity
        /\ Log[i].current_stock_before = submitted[i].stock_before
        /\ i < Len(Log) => Log[i + 1].current_stock_before = Log[i].current_stock_after
        /\ i = Len(Log) => agent.current_stock = Log[i].current_stock_after

\* a period that fulfilled demand and placed an order, followed by another period
C6_Witness ==
    \E i \in DOMAIN Log :
        /\ i < Len(Log)
        /\ Log[i].demand_fulfilled > 0
        /\ Log[i].order_quantity > 0

MetricsCalls == {"get_performance_metrics", "get_scenario_performance"}

\* C7: a metrics call changes nothing of the agent, and the same metrics call made
\* twice in a row returns the same value.
C7_MetricsIdempotent ==
    [][ /\ response'.op \in MetricsCalls =>
              /\ agent' = agent
              /\ submitted' = submitted
        /\ (response.op \in MetricsCalls /\ response'.op = response.op) =>
              response'.value = response.value ]_vars

\* get_performance_metrics answered for an agent with a stockout and an order
C7_Witness ==
    /\ response.op = "get_performance_metrics"
    /\ Len(Log) >= 2
    /\ response.value.operational.stockouts >= 1
    /\ response.value.inventory.total_orders_placed >= 1
    /\ response.value.financial.profit_margin_percent # 0

SvcLog == production_service.agent.decisions_log

C5_Counts ==
    LET n == Len(submitted)
    IN  /\ Len(SvcLog) = n
        /\ production_service.current_day = n
        /\ production_service.total_decisions = n
        /\ Len(production_service.decision_log) = n
        /\ Len(production_service.daily_data_log) = n
        /\ \A i \in 1..n :
              /\ SvcLog[i].scenario = submitted[i].scenario
              /\ SvcLog[i].predicted_demand = Max(0, submitted[i].predicted_demand)
              /\ SvcLog[i].current_stock_before = submitted[i].stock_before
              /\ production_service.decision_log[i].day = i
              /\ production_service.decision_log[i].decision = SvcLog[i]

C5_AppendOnly ==
    response'.op # "reset_system" =>
        /\ Len(SvcLog') \in {Len(SvcLog), Len(SvcLog) + 1}
        /\ SubSeq(SvcLog', 1, Len(SvcLog)) = SvcLog
        /\ submitted' # submitted => Len(SvcLog') = Len(SvcLog) + 1

\* C5: after n processed periods since the service was built, the agent's decision
\* log, the service's current_day, total_decisions and decision_log all count n,
\* the log is in submission order, and a call only ever appends one entry to it.
C5_LogGrowsByOne == []C5_Counts /\ [][C5_AppendOnly]_vars

\* two periods processed
C5_Witness ==
    /\ Len(submitted) = 2
    /\ production_service.current_day = 2
    /\ SvcLog[1] # SvcLog[2]

NegativePrediction(r) ==
    /\ r.op = "process_daily_data"
    /\ r.args.predicted_demand.t = "num"
    /\ r.args.predicted_demand.v < 0

\* C8 as claimed: a request with a negative predicted_demand is answered with an
\* error and changes nothing.
C8_NegativeRejected ==
    [][ NegativePrediction(response') =>
            /\ response'.value.status = "error"
            /\ production_service' = production_service ]_vars

\* C8 as the code has it: a well-formed request with a negative predicted_demand is
\* processed as a period of predicted demand 0: success, the day counted, one
\* decision appended with predicted_demand 0 and actual_demand 0, the stock
\* changed by the order alone.
C8_NegativeClamped ==
    [][ (NegativePrediction(response') /\ response'.args \in GoodRequests) =>
            /\ response'.value.status = "success"
            /\ production_service'.current_day = production_service.current_day + 1
            /\ Len(SvcLog') = Len(SvcLog) + 1
            /\ SvcLog'[Len(SvcLog')].predicted_demand = 0
            /\ SvcLog'[Len(SvcLog')].actual_demand = 0
            /\ SvcLog'[Len(SvcLog')].demand_fulfilled = 0
            /\ production_service'.agent.current_stock =
                  production_service.agent.current_stock
                  + SvcLog'[Len(SvcLog')].order_quantity ]_vars

\* a request with a negative predicted_demand was processed
C8_Witness ==
    /\ NegativePrediction(response)
    /\ response.value.status = "success"
    /\ SvcLog # <<>>
    /\ SvcLog[Len(SvcLog)].predicted_demand = 0

\* a request with a non-numeric sales or predicted_demand, or with a missing or
\* unparseable date
Malformed(r) ==
    \/ r.sales.t \in {"text", "null"}
    \/ r.predicted_demand.t \in {"text", "null"}
    \/ r.date \in BadDates

RECURSIVE SerialRuns(_, _)
SerialRuns(svc, todo) ==
    IF todo = {} THEN {svc}
    ELSE UNION { SerialRuns(process_daily_data(svc, threads[t].daily_data,
                                               threads[t].demand_variance).service,
                            todo \ {t}) : t \in todo }

\* C10 as claimed: with requests in flight at the same time the stock never becomes
\* negative, and once all are answered the service is as if they had been processed
\* one after the other in some order.
C10_Serialized ==
    /\ production_service.agent.current_stock >= 0
    /\ (\A t \in ThreadIds : threads[t].pc = "done") =>
           production_service \in SerialRuns(ProductionAgentService, ThreadIds)

\* C11 as claimed: a reset takes effect only when no process-day call is in flight,
\* and a process-day call that answers success reports the state of the service as
\* it then is (its day number and decision count are those of the service).
C11_ResetExclusive ==
    [][ /\ (response' # response /\ response'.op = "reset_system")
            => \A t \in DOMAIN threads : threads[t].pc = "idle"
        /\ (response' # response /\ response'.op = "process_daily_data"
                /\ response'.value.status = "success")
            => /\ response'.value.day = production_service'.current_day
               /\ response'.value.system_info.total_decisions
                      = production_service'.total_decisions ]_vars

\* the agent as constructed, for an agent built from one of EngineConfigs (the
\* configurations differ in their base values, which a reset leaves alone)
AsConstructed(a) ==
    { IntelligentInventoryAgent(c[1], c[2], c[3]) :
        c \in { k \in EngineConfigs : /\ k[2] = a.base_reorder_point
                                      /\ k[3] = a.base_reorder_quantity } }

\* C12 as claimed: after reset_simulation() without argument every component of the
\* agent (stock, logs, orders, stockouts, revenue, costs, satisfaction and scenario
\* memory) is as it was right after construction.
C12_ResetFull ==
    [][ (response' # response /\ response'.op = "reset_simulation" /\ response'.args = <<>>)
            => agent' \in AsConstructed(agent) ]_vars

\* The rule table as the specification states it: the rules in their order, the
\* keywords of each, and ten times the reorder point and quantity each prescribes
RuleOrder ==
    << "Viral/Celebrity", "Black_Friday", "Supply_Chain_Disruption",
       "Economic_Downturn", "Competitor_Stockout", "Post_Holiday" >>

RuleKeywords(i) ==
    IF i = 1 THEN {"Viral", "Celebrity"} ELSE {RuleOrder[i]}

Mentions(label, i) == \E kw \in RuleKeywords(i) : Contains(label, kw)

Prescribed(i, point, quantity, cap) ==
    [ point10    |-> << 25, 30, 18, 7, 15, 5 >>[i] * point,
      quantity10 |-> IF i \in {1, 2, 5}
                     THEN 10 * Min(<< 3, 4, 0, 0, 2, 0 >>[i] * quantity, cap)
                     ELSE << 0, 0, 7, 6, 0, 4 >>[i] * quantity ]

Adapted == response.op = "analyze_scenario_and_adapt"

Follows(adaptation, i) ==
    LET p == Prescribed(i, agent.base_reorder_point, agent.base_reorder_quantity,
                        agent.max_order_size)
    IN  /\ 10 * adaptation.reorder_point = p.point10
        /\ 10 * adaptation.reorder_quantity = p.quantity10

\* C13: for a label with the keywords of one rule, analyze_scenario_and_adapt returns
\* the reorder point and quantity of that rule of the table; "Black_Friday_2024" with
\* base values 300 and 800 and max_order_size 5000 gives 900 and 3200.
C13_RuleTable ==
    Adapted =>
        /\ \A i \in DOMAIN RuleOrder :
              ( /\ Mentions(response.args.scenario_name, i)
                /\ \A j \in DOMAIN RuleOrder \ {i} : ~Mentions(response.args.scenario_name, j) )
              => Follows(response.value, i)
        /\ ( /\ response.args.scenario_name = Black_Friday_2024
             /\ agent.base_reorder_point = 300 * Unit
             /\ agent.base_reorder_quantity = 800 * Unit
             /\ agent.max_order_size = 5000 * Unit )
           => /\ response.value.reorder_point = 900 * Unit
              /\ response.value.reorder_quantity = 3200 * Unit

C13_Witness ==
    /\ Adapted
    /\ response.args.scenario_name = Black_Friday_2024
    /\ agent.base_reorder_point = 300 * Unit
    /\ agent.base_reorder_quantity = 800 * Unit
    /\ response.value.reorder_point = 900 * Unit
    /\ response.value.reorder_quantity = 3200 * Unit

\* the urgency tier each rule announces
RuleUrgency ==
    << "Critical - Viral Event", "Critical - Black Friday", "Caution - Supply Issues",
       "Conservative - Economic Risk", "Opportunity - Market Capture", "Clearance Mode" >>

\* C14: a label with the keywords of several rules gets the policy of the earliest of
\* them in the rule order and of no other; a label matching no rule gets the base
\* values unchanged and the tier "Normal".
C14_FirstMatchWins ==
    Adapted =>
        LET matching == {i \in DOMAIN RuleOrder : Mentions(response.args.scenario_name, i)}
        IN  IF matching = {}
            THEN /\ response.value.reorder_point = agent.base_reorder_point
                 /\ response.value.reorder_quantity = agent.base_reorder_quantity
                 /\ response.value.urgency_level = "Normal"
            ELSE LET first == CHOOSE i \in matching : \A j \in matching : i <= j
                 IN  /\ Follows(response.value, first)
                     /\ response.value.urgency_level = RuleUrgency[first]

C14_Witness ==
    /\ Adapted
    /\ response.args.scenario_name = <<"Post_Holiday", "_", "Viral">>
    /\ response.value.urgency_level = "Critical - Viral Event"
    /\ \E l \in DOMAIN agent.scenario_memory :
          l \in NoRuleLabels /\ agent.scenario_memory[l].successful_strategies = <<"Normal">>

\* a run of the agent constructed with (stock, point, quantity) in which every period
\* so far had the given label, the given predicted demand and no noise
QuietRun(stock, point, quantity, label, predicted_demand) ==
    /\ submitted # <<>>
    /\ Len(Log) = Len(submitted)
    /\ submitted[1].stock_before = stock
    /\ agent.base_reorder_point = point
    /\ agent.base_reorder_quantity = quantity
    /\ \A i \in DOMAIN submitted : /\ submitted[i].scenario = label
                                   /\ submitted[i].predicted_demand = predicted_demand
                                   /\ submitted[i].demand_variance = 0

EndToEndRun ==
    QuietRun(2000 * Unit, 300 * Unit, 800 * Unit, Normal_Operations, 100 * Unit)

\* the stock of a logged period after its demand was served, before any order
PostFulfilment(d) == d.current_stock_before - d.demand_fulfilled

\* C15 as claimed: in the end-to-end run no order is placed in periods 1 to 17, the
\* stock after each of them being 100 less than after the one before, and the first
\* order is placed in period 18 with post-fulfilment stock 200.
C15_FirstReorderOn18 ==
    EndToEndRun =>
        \A i \in DOMAIN Log :
            /\ i <= 17 => /\ Log[i].order_quantity = 0
                          /\ Log[i].action = "no_action"
                          /\ Log[i].current_stock_after = (2000 - 100 * i) * Unit
            /\ i = 18 => /\ Log[i].action = "intelligent_reorder"
                         /\ PostFulfilment(Log[i]) = 200 * Unit

\* C15, amended: in the end-to-end run no order is placed in periods 1 to 16, the
\* stock after each of them being 100 less than after the one before; the first order
\* is placed in period 17, when the post-fulfilment stock reaches 300 <= 300, with
\* action "intelligent_reorder" and quantity 1750; period 18 places none.
C15_FirstReorderOn17 ==
    EndToEndRun =>
        \A i \in DOMAIN Log :
            /\ i <= 16 => /\ Log[i].order_quantity = 0
                          /\ Log[i].action = "no_action"
                          /\ Log[i].current_stock_after = (2000 - 100 * i) * Unit
            /\ i = 17 => /\ Log[i].action = "intelligent_reorder"
                         /\ PostFulfilment(Log[i]) = 300 * Unit
                         /\ Log[i].adaptive_reorder_point = 300 * Unit
                         /\ Log[i].order_quantity = 1750 * Unit
                         /\ Log[i].current_stock_after = 2050 * Unit
            /\ i = 18 => /\ Log[i].action = "no_action"
                         /\ Log[i].current_stock_after = 1950 * Unit

C15_Witness ==
    /\ EndToEndRun
    /\ Len(Log) = 18
    /\ Len(agent.orders_placed) = 1
    /\ agent.orders_placed[1].date = 17

\* C16: in the 18 periods of the end-to-end run no period has a stockout: the stockout
\* count stays 0, satisfaction stays 100, and every period's demand_fulfilled equals
\* its actual_demand of 100.
C16_NoStockout ==
    EndToEndRun =>
        /\ agent.stockouts = 0
        /\ agent.customer_satisfaction_score = 100
        /\ \A i \in DOMAIN Log : /\ Log[i].actual_demand = 100 * Unit
                                 /\ Log[i].demand_fulfilled = 100 * Unit
                                 /\ Log[i].action # "stockout"
                                 /\ submitted[i].stockout_amount = 0

C16_Witness ==
    /\ EndToEndRun
    /\ Len(Log) = 18
    /\ agent.stockouts = 0
    /\ Log[18].demand_fulfilled = 100 * Unit

\* C17: when the first period of a fresh agent leaves the post-fulfilment stock at or
\* below the adapted reorder point, that period places an order of
\* floor(min(adapted reorder quantity, max_order_size)) and logs "intelligent_reorder";
\* "Viral_Spike_Test" with stock 300, base values 300 and 800, predicted demand 500
\* and no noise orders 2400.
C17_FirstPeriodOrder ==
    Log # <<>> =>
        /\ PostFulfilment(Log[1]) <= Log[1].adaptive_reorder_point =>
              LET m == Min(Log[1].adaptive_reorder_quantity, agent.max_order_size)
              IN  /\ Log[1].action = "intelligent_reorder"
                  /\ Log[1].order_quantity % Unit = 0
                  /\ Log[1].order_quantity <= m
                  /\ m < Log[1].order_quantity + Unit
                  /\ agent.orders_placed[1].quantity = Log[1].order_quantity
        /\ QuietRun(300 * Unit, 300 * Unit, 800 * Unit, Viral_Spike_Test, 500 * Unit) =>
              /\ Log[1].action = "intelligent_reorder"
              /\ Log[1].order_quantity = 2400 * Unit

C17_Witness ==
    /\ QuietRun(300 * Unit, 300 * Unit, 800 * Unit, Viral_Spike_Test, 500 * Unit)
    /\ Len(Log) = 1
    /\ Log[1].adaptive_reorder_point = 750 * Unit
    /\ submitted[1].stockout_amount = 200 * Unit
    /\ Log[1].order_quantity = 2400 * Unit

ReadOnlyOps == {"get_current_state", "get_performance_summary", "health_check"}

\* C18: the current-state, performance-summary and health operations never mutate:
\* across each of them the service (day counter, logs, performance_metrics) and its
\* agent (stock, logs, accumulators, scenario memory) are unchanged.
C18_ReadOnly ==
    [][ (response' # response /\ response'.op \in ReadOnlyOps)
            => /\ production_service' = production_service
               /\ submitted' = submitted ]_vars

C18_Witness ==
    /\ response.op = "get_current_state"
    /\ production_service.current_day = 2
    /\ response.value.current_day = 2
    /\ Len(production_service.agent.orders_placed) >= 1

\* the processed periods in which the realised demand exceeded the stock at hand
ShortPeriods(log) == {i \in DOMAIN log : log[i].actual_demand > log[i].current_stock_before}

\* C19 as claimed: the performance snapshot returned by a successful process-day call
\* reports as stockouts the number of processed periods whose realised demand exceeded
\* the available stock, which is the agent's own stockout count, and as service level
\* the percentage of processed periods without one.
C19_SnapshotStockouts ==
    (response.op = "process_daily_data" /\ response.value.status = "success") =>
        LET n     == Len(SvcLog)
            short == Cardinality(ShortPeriods(SvcLog))
        IN  /\ response.value.performance_metrics.stockouts = short
            /\ response.value.performance_metrics.stockouts = production_service.agent.stockouts
            /\ response.value.performance_metrics.service_level
                  = RoundDiv((n - short) * 100, n, 2)

\* the reorder condition of a logged period: its post-fulfilment stock is at or below
\* the reorder point adapted to its scenario
ReorderDue(d) == PostFulfilment(d) <= d.adaptive_reorder_point

\* C20: a period places an order if and only if its stock after fulfilment (not the
\* stock it began with) is <= its adapted reorder point; a period that does not, appends
\* no order, logs order_quantity 0, and leaves stock and total costs as fulfilment left
\* them.
C20_ReorderIff ==
    /\ \A i \in DOMAIN Log :
          /\ ReorderDue(Log[i]) <=> Log[i].action = "intelligent_reorder"
          /\ ReorderDue(Log[i]) <=>
                \E k \in DOMAIN agent.orders_placed : agent.orders_placed[k].date = Log[i].date
          /\ ~ReorderDue(Log[i]) => /\ Log[i].order_quantity = 0
                                   /\ Log[i].current_stock_after = PostFulfilment(Log[i])
    /\ Len(agent.orders_placed) = Cardinality({i \in DOMAIN Log : ReorderDue(Log[i])})
    /\ agent.total_costs = 30 * SumSeq([i \in DOMAIN Log |-> Log[i].order_quantity])

\* a period that began above its reorder point and ordered, and one that did not order
C20_Witness ==
    \E i, j \in DOMAIN Log :
        /\ Log[i].current_stock_before > Log[i].adaptive_reorder_point
        /\ ReorderDue(Log[i])
        /\ Log[i].action = "intelligent_reorder"
        /\ ~ReorderDue(Log[j])
        /\ Log[j].order_quantity = 0

\* the quantity ordered for a candidate: capped, then truncated to whole units
Ordered(candidate) == PyInt(Min(candidate, agent.max_order_size))

\* C21 as claimed: an order placed with at least 7 periods recorded before it (exactly
\* 7 included) is sized from max(policy quantity, mean of the last 7 actual demands
\* x 7 x weeks_coverage); with fewer than 7 recorded periods from the policy quantity
\* alone.  (Runs under "Normal_Operations", where weeks_coverage is 2.5.)
C21_WeekOfData ==
    \A i \in DOMAIN Log :
        Log[i].action = "intelligent_reorder" =>
            Log[i].order_quantity =
                Ordered(IF i - 1 >= 7
                        THEN Max(Log[i].adaptive_reorder_quantity, TrailingQuantity(i))
                        ELSE Log[i].adaptive_reorder_quantity)

\* weeks_coverage (in tenths) as the specification selects it, from the urgency tier
TierCoverage(urgency_level) ==
    IF urgency_level \in {"Critical - Viral Event", "Critical - Black Friday"} THEN 40
    ELSE IF urgency_level = "Conservative - Economic Risk" THEN 15
    ELSE 25

\* the sum of the actual demands of the seven periods before period i: their mean x 7
TrailingWeek(i) == SumSeq([k \in 1..7 |-> Log[i - 8 + k].actual_demand])

\* C22 as claimed: where an order is sized from demand (more than 7 periods recorded),
\* weeks_coverage follows the period's urgency tier: 4 for a "Critical" tier, 1.5 for a
\* "Conservative" tier, 2.5 otherwise.
C22_CoverageFromTier ==
    \A i \in DOMAIN Log :
        (i - 1 > 7 /\ Log[i].action = "intelligent_reorder") =>
            Log[i].order_quantity =
                Ordered(Max(Log[i].adaptive_reorder_quantity,
                            (TrailingWeek(i) * TierCoverage(Log[i].urgency_level)) \div 10))

\* the recorded periods in which _process_demand returned a stockout amount > 0
StockoutPeriods == {i \in DOMAIN submitted : submitted[i].stockout_amount > 0}

\* C23: every period with a stockout amount > 0 adds exactly 1 to the stockout count and
\* takes 2 points of satisfaction, down to 0 and no further, also when the period's
\* logged action became "intelligent_reorder"; so the score is max(0, 100 - 2 x count)
\* and the count is at most the number of periods.
C23_StockoutPenalty ==
    /\ Len(Log) = Len(submitted)
    /\ agent.stockouts = Cardinality(StockoutPeriods)
    /\ agent.stockouts <= Len(Log)
    /\ agent.customer_satisfaction_score = Max(0, 100 - 2 * agent.stockouts)

\* more stockouts than the score has points for, one of them in a period that reordered,
\* and a period without stockout in between
C23_Witness ==
    /\ agent.stockouts > 50
    /\ agent.customer_satisfaction_score = 0
    /\ agent.stockouts < Len(Log)
    /\ \E i \in StockoutPeriods : Log[i].action = "intelligent_reorder"

Orders == agent.orders_placed

C24_CostsAreOrders ==
    /\ \A k \in DOMAIN Orders : Orders[k].cost = Orders[k].quantity * 30
    /\ agent.total_costs = SumSeq([k \in DOMAIN Orders |-> Orders[k].cost])
    /\ agent.total_costs = 30 * SumSeq([k \in DOMAIN Orders |-> Orders[k].quantity])

C24_NoOrderNoCost ==
    ( /\ Len(agent'.decisions_log) = Len(Log) + 1
      /\ agent'.decisions_log[Len(Log) + 1].action # "intelligent_reorder" )
    => /\ agent'.orders_placed = Orders
       /\ agent'.total_costs = agent.total_costs

\* C24: every order has cost = quantity x 30, total_costs is always the sum of the costs
\* of the orders in orders_placed (30 x the units ordered), also after a reset, and a
\* period that places no order leaves total_costs and orders_placed unchanged.
C24_Costs == []C24_CostsAreOrders /\ [][C24_NoOrderNoCost]_vars

\* an order on the books of a run that followed a reset, and a period without order
C24_Witness ==
    /\ Len(Orders) = 1
    /\ agent.total_costs = 800 * Unit * 30
    /\ \E l \in DOMAIN agent.scenario_memory : agent.scenario_memory[l].encounters > Len(Log)
    /\ \E i \in DOMAIN Log : Log[i].action = "no_action"

\* C25: total_revenue is always 50 x the sum of demand_fulfilled over the logged
\* decisions: each period adds its fulfilled units x 50, unmet demand adds nothing, and
\* an order changes nothing of it.
C25_RevenueIsFulfilled ==
    /\ Len(Log) = Len(submitted)
    /\ agent.total_revenue = 50 * SumSeq([i \in DOMAIN Log |-> Log[i].demand_fulfilled])
    /\ \A i \in DOMAIN Log : Log[i].demand_fulfilled = submitted[i].demand_fulfilled

\* revenue after a period that could not serve its whole demand and then ordered
C25_Witness ==
    /\ agent.total_revenue > 0
    /\ \E i \in DOMAIN Log : /\ submitted[i].stockout_amount > 0
                             /\ Log[i].demand_fulfilled > 0
                             /\ Log[i].action = "intelligent_reorder"

\* the memory entry of a label before its first encounter
NoMemory == [encounters |-> 0, avg_demand |-> [num |-> 0, den |-> 1],
             max_demand |-> 0, successful_strategies |-> <<>>]

MemoryOf(a, label) ==
    IF label \in DOMAIN a.scenario_memory THEN a.scenario_memory[label] ELSE NoMemory

\* C26: a call of analyze_scenario_and_adapt updates the memory entry of its label
\* exactly once, whichever branch is taken (an absent entry starting from encounters 0,
\* avg_demand 0, max_demand 0: encounters + 1, the mean and the maximum brought up to
\* date, the urgency tier appended), and leaves every other component of the agent and
\* the entries of the other labels unchanged.
C26_MemoryFrame ==
    [][ response'.op = "analyze_scenario_and_adapt" =>
          /\ [agent' EXCEPT !.scenario_memory = agent.scenario_memory] = agent
          /\ DOMAIN agent'.scenario_memory
                = DOMAIN agent.scenario_memory \cup {response'.args.scenario_name}
          /\ \A l \in DOMAIN agent.scenario_memory \ {response'.args.scenario_name} :
                agent'.scenario_memory[l] = agent.scenario_memory[l]
          /\ MemoryOf(agent', response'.args.scenario_name).encounters
                = MemoryOf(agent, response'.args.scenario_name).encounters + 1
          /\ MemoryOf(agent', response'.args.scenario_name).max_demand
                = Max(MemoryOf(agent, response'.args.scenario_name).max_demand,
                      response'.args.predicted_demand)
          /\ MemoryOf(agent', response'.args.scenario_name).successful_strategies
                = Append(MemoryOf(agent, response'.args.scenario_name).successful_strategies,
                         response'.value.urgency_level)
          /\ MemoryOf(agent', response'.args.scenario_name).avg_demand
                = RunningMean(MemoryOf(agent, response'.args.scenario_name).avg_demand,
                              MemoryOf(agent, response'.args.scenario_name).encounters + 1,
                              response'.args.predicted_demand) ]_vars

\* a label no rule matches met for the first time, its entry created beside the entry
\* an earlier call left for another label
C26_Witness ==
    /\ Adapted
    /\ response.args.scenario_name \in NoRuleLabels
    /\ MemoryOf(agent, response.args.scenario_name).encounters = 1
    /\ MemoryOf(agent, response.args.scenario_name).max_demand = 120 * Unit + 50
    /\ MemoryOf(agent, response.args.scenario_name).successful_strategies = <<"Normal">>
    /\ Cardinality(DOMAIN agent.scenario_memory) = 2

\* the agent without what it remembers of the labels
Wiped(a) == [a EXCEPT !.scenario_memory = <<>>]

\* memories another engine may hold of a label: none, and a long and heavy one
OtherMemories(label) ==
    { <<>>,
      [l \in {label} |->
          [encounters |-> 40, avg_demand |-> [num |-> 9000 * Unit, den |-> 1],
           max_demand |-> 9000 * Unit, successful_strategies |-> <<"Critical - Viral Event">>]] }

\* the period just processed, as an engine holding another memory would process it
Twin(a, other, period, args) ==
    make_intelligent_decision([a EXCEPT !.scenario_memory = other], args.predicted_demand,
                              period, args.scenario, args.demand_variance)

\* C27: the scenario memory never feeds back into a decision: an engine that differs
\* from the agent only in its scenario memory returns, for the same event and the same
\* noise, the same decision (policy, action, quantity, stock) and is left with the same
\* stock, orders, log and accumulators.
C27_MemoryInert ==
    [][ response'.op = "make_intelligent_decision" =>
          \A other \in OtherMemories(response'.args.scenario) :
             /\ [Twin(agent, other, Len(submitted) + 1, response'.args) EXCEPT
                    !.agent = Wiped(@)]
                   = [agent |-> Wiped(agent'), decision |-> response'.value,
                      locals |-> [demand_fulfilled |-> submitted'[Len(submitted')].demand_fulfilled,
                                  stockout_amount  |-> submitted'[Len(submitted')].stockout_amount]]
             /\ ScenarioPolicy([agent EXCEPT !.scenario_memory = other], response'.args.scenario)
                   = ScenarioPolicy(agent, response'.args.scenario) ]_vars

\* an order placed by an agent whose memory of the label is longer than its log: it
\* differs in memory alone from an engine constructed alike and fed the periods logged
C27_Witness ==
    /\ response.op = "make_intelligent_decision"
    /\ response.value.action = "intelligent_reorder"
    /\ Len(agent.decisions_log) = 1
    /\ MemoryOf(agent, response.args.scenario).encounters = 2

\* C28: with a base reorder point of 0 or more, a period of stockout empties the stock
\* and so falls under the reorder test: it orders too, and no logged decision has the
\* action "stockout"; the action is always "no_action" or "intelligent_reorder".
C28_NoStockoutAction ==
    agent.base_reorder_point >= 0 =>
       /\ Len(Log) = Len(submitted)
       /\ \A i \in DOMAIN Log :
             /\ Log[i].action \in {"no_action", "intelligent_reorder"}
             /\ submitted[i].stockout_amount > 0 =>
                   /\ Log[i].action = "intelligent_reorder"
                   /\ Log[i].current_stock_after = Log[i].order_quantity

\* a stockout under a base reorder point of 0, logged as a reorder, after a period that
\* neither ran out nor ordered
C28_Witness ==
    /\ agent.base_reorder_point = 0
    /\ Len(Log) = 3
    /\ Log[2].action = "no_action"
    /\ submitted[3].stockout_amount > 0
    /\ Log[3].action = "intelligent_reorder"

\* the logged decisions that ordered, in the order of the log
ReorderDecisions == SelectSeq(Log, LAMBDA d : d.action = "intelligent_reorder")

\* C29: the order log corresponds to the decision log: there are as many orders as
\* decisions with action "intelligent_reorder", the k-th order has the date, scenario,
\* urgency and quantity of the k-th such decision, and every other decision has an
\* order_quantity of 0.
C29_OrdersAreReorders ==
    /\ Len(Orders) = Len(ReorderDecisions)
    /\ \A k \in DOMAIN Orders :
          /\ Orders[k].date = ReorderDecisions[k].date
          /\ Orders[k].scenario = ReorderDecisions[k].scenario
          /\ Orders[k].urgency = ReorderDecisions[k].urgency_level
          /\ Orders[k].quantity = ReorderDecisions[k].order_quantity
    /\ \A i \in DOMAIN Log :
          Log[i].action # "intelligent_reorder" => Log[i].order_quantity = 0

\* two orders with a period that ordered nothing between them, the second one under
\* another label and cut to the largest order size
C29_Witness ==
    /\ Len(Log) = 3
    /\ Len(Orders) = 2
    /\ Log[2].action = "no_action"
    /\ Orders[1].scenario # Orders[2].scenario
    /\ Orders[2].date = 3
    /\ Orders[2].quantity = agent.max_order_size
    /\ Log[3].adaptive_reorder_quantity > agent.max_order_size

\* the request just answered was processed
Submitted == response.op = "process_daily_data" /\ response.value.status = "success"

\* C30: after every successful submit the running snapshot of the service agrees with
\* the accumulators of its engine: the same total_revenue, the same total_costs, and an
\* orders_placed count equal to the number of orders in the engine's order log, whatever
\* the sales, the predicted demand and the realized demand of the submitted events.
C30_SnapshotAgrees ==
    Submitted =>
       /\ production_service.performance_metrics.total_revenue
             = production_service.agent.total_revenue
       /\ production_service.performance_metrics.total_costs
             = production_service.agent.total_costs
       /\ production_service.performance_metrics.orders_placed
             = Len(production_service.agent.orders_placed)

====
